---- MODULE Spec2Model ----
(***************************************************************************)
(* NodePatch: the PatchModules registry (the versioned variant,            *)
(* src/src/core/patchModules.ts lines 97-297), the CodeVault it archives   *)
(* source text in, the backing file it reads and writes, the host's        *)
(* require cache, and the configuration the REPL edits; the CodeVault used *)
(* on its own with each of its backends; PatchPackages; and the whole-file *)
(* patches of patchLoader with the rollback of rollbackManager.            *)
(*                                                                         *)
(* JavaScript values are named by strings: "undefined" is undefined,       *)
(* "zero" is the number 0 (a falsy value a caller may register), "objA"    *)
(* and "objB" are two distinct objects built in memory, and "exp0",        *)
(* "expA", "expB" are the exports obtained by loading a file whose text    *)
(* is "" (an empty file, exporting {}), "srcA" (exporting a function) or   *)
(* "srcB" (exporting a plain object).  The developer's edits leave the     *)
(* backing file empty or holding "srcA"; "srcB" is the source text a       *)
(* caller hands to reloadInstance.                                         *)
(***************************************************************************)
EXTENDS Integers, Sequences, FiniteSets, TLC

\* ------------------------------------------------------------------ bounds
MaxVersions == 2
MaxClock == 1
MaxLoads == 4
MaxPkgVersion == 2
MaxChain == 3
StackLimit == 4

\* ------------------------------------------------------------------ inputs
Names == {"m", "n"}
FileNames == {"m"}
Paths == {"p"}
ReloadPaths == {"q"}
AllPaths == Paths \cup ReloadPaths
UNDEF == "undefined"
MemInstances == {"zero", "objA", "objB"}
FileSpecInstances == {"objA"}
Contents == {"", "srcA"}
StepsArgs == {0, 1, 2, 99}
SourceArgs == {UNDEF, "srcB"}
DepthArgs == {1, 2}
PackageNames == {"pkgA", "pkgB"}
\* Packages whose main modules require other modules: "top" requires
\* "pkgA"; "cycA" and "cycB" require each other.
GraphPackages == {"top", "cycA", "cycB"}
AllPackages == PackageNames \cup GraphPackages
\* Two module files of the program and two patch files: "patchA" requires
\* nothing, "patchB" requires the module "mod".
ModuleFiles == {"mod", "lib"}
PatchFiles == {"patchA", "patchB"}
\* Everything the host's require cache can hold.
CachePaths == AllPackages \cup ModuleFiles \cup PatchFiles

\* Which step of a call the environment makes fail: reading the backing
\* file, a CodeVault call, writing the backing file, evaluating the module.
LoadFaults == {"none", "read", "vault", "load"}
InstallFaults == {"none", "vault", "write"}
RollbackFaults == {"none", "vault", "write", "load"}

\* ------------------------------------------------------------ JS semantics
\* !x of JavaScript: undefined, 0 and "" are falsy, every object is truthy.
Falsy(v) == v \in {UNDEF, "zero", ""}

\* The exports that evaluating a source text yields.
LoadModule(c) == CASE c = "" -> "exp0"
                   [] c = "srcA" -> "expA"
                   [] c = "srcB" -> "expB"
                   [] OTHER -> UNDEF

\* The shape class of a value: a function, a plain object, or neither.
ShapeOf(v) == CASE v = "expA" -> "function"
                [] v \in {"objA", "objB", "exp0", "expB"} -> "object"
                [] OTHER -> "other"

\* A property read or method call through a reference is served by the
\* object the reference denotes.
ServedBy(ref) == ref

\* ------------------------------------------------------------------- state
VARIABLES modules, vault, files, cache, now, config, lastOp,
          vaultDir, vaultDb, stored, vaultOp,
          packages, pkgCache, pkgDisk, pkgLoads, pkgOp, rollbackRegistry

\* A CodeVault used on its own, once per backend, and PatchPackages.
storeVars == <<vaultDir, vaultDb, stored, vaultOp>>

pkgVars == <<packages, pkgCache, pkgDisk, pkgLoads, pkgOp, rollbackRegistry>>

registryVars == <<modules, vault, files, cache, now, config, lastOp>>

vars == <<modules, vault, files, cache, now, config, lastOp,
          vaultDir, vaultDb, stored, vaultOp,
          packages, pkgCache, pkgDisk, pkgLoads, pkgOp, rollbackRegistry>>

NoKey == <<UNDEF, -1>>
NoRow == <<"norow">>
NotCached == UNDEF

NoEntry == [present |-> FALSE, instance |-> UNDEF, backup |-> UNDEF,
            path |-> UNDEF, versions |-> << >>, currentVersion |-> NoKey]

AllKeys == Names \X (0..MaxClock)

\* ---------------------------------------------------------------- CodeVault
Compress(c) == <<"br", c>>

\* A decompression that loses the payload.
DecompressEmpty(b) == ""

Decompress(b) == b[2]

\* A store call that writes nothing.
VaultStoreLost(v, key, code) == v

VaultStore(v, key, code) == [v EXCEPT ![key] = Compress(code)]

VaultLoad(v, key) == IF v[key] = NoRow THEN UNDEF ELSE Decompress(v[key])

\* DELETE FROM code_store WHERE key = ?
VaultRemove(v, key) == [v EXCEPT ![key] = NoRow]

\* Keys handed to a CodeVault used on its own.  A key is the sequence of its
\* '/'-separated segments: "a", "./a", "a/b" and "b".
StoreKeys == {<<"a">>, <<".", "a">>, <<"a", "b">>, <<"b">>}

Payloads == {"", "l1\n\tl2"}

NoFile == <<"nofile">>

\* path.join's normalisation of directory segments: "." is dropped and ".."
\* cancels the segment before it.
RECURSIVE NormalizeSegs(_, _)
NormalizeSegs(segs, acc) ==
    IF segs = << >> THEN acc
    ELSE IF Head(segs) = "." THEN NormalizeSegs(Tail(segs), acc)
    ELSE IF Head(segs) = ".." /\ acc # << >> /\ acc[Len(acc)] # ".."
      THEN NormalizeSegs(Tail(segs), SubSeq(acc, 1, Len(acc) - 1))
    ELSE NormalizeSegs(Tail(segs), Append(acc, Head(segs)))

\* path.join(baseDir, `${key}.js.br`): the directory below baseDir and the
\* file name.
FilePath(key) ==
    [dir |-> NormalizeSegs(SubSeq(key, 1, Len(key) - 1), << >>),
     base |-> key[Len(key)], ext |-> ".js.br"]

VaultFiles == {FilePath(k) : k \in StoreKeys}

\* The constructor creates baseDir only; its ancestors exist, no directory
\* below it does.
DirExists(dir) == \A i \in 1..Len(dir) : dir[i] = ".."

\* store, file backend: fs.writeFileSync fails when the directory is missing.
FileStore(d, key, code) ==
    IF DirExists(FilePath(key).dir)
      THEN [ok |-> TRUE, dir |-> [d EXCEPT ![FilePath(key)] = Compress(code)]]
    ELSE [ok |-> FALSE, dir |-> d]

\* load, file backend
FileLoad(d, key) ==
    IF d[FilePath(key)] = NoFile THEN UNDEF ELSE Decompress(d[FilePath(key)])

\* remove, file backend
FileRemove(d, key) == [d EXCEPT ![FilePath(key)] = NoFile]

VaultResult(op, key, onFile, onSqlite) ==
    [op |-> op, key |-> key, file |-> onFile, sqlite |-> onSqlite]

\* ------------------------------------------------------------- PatchModules
\* A version key built from the timestamp alone.
makeVersionKeyNameless(name) == <<"m", now>>

\* `${name}@${Date.now()}`
makeVersionKey(name) == <<name, now>>

\* A log record that names a key of the clock's first instant.
VersionMetaStaleKey(key) == [key |-> <<key[1], 0>>, createdAt |-> now]

VersionMeta(key) == [key |-> key, createdAt |-> now]

\* A package instance is named by the installed version it was loaded from
\* and by the serial number of the load that created it.
NoPackage == << >>

PkgResult(op, name, res) == [op |-> op, name |-> name, result |-> res]

Result(op, name, arg, res) == [op |-> op, name |-> name, arg |-> arg, result |-> res]

Init ==
    /\ modules = [n \in Names |-> NoEntry]
    /\ vault = [k \in AllKeys |-> NoRow]
    /\ files = [p \in AllPaths |-> IF p \in Paths THEN "srcA" ELSE "srcB"]
    /\ cache = [p \in AllPaths |-> NotCached]
    /\ now = 0
    /\ config = [max_rollback_cache |-> 1]
    /\ lastOp = Result("init", UNDEF, 0, "ok")
    /\ vaultDir = [f \in VaultFiles |-> NoFile]
    /\ vaultDb = [k \in StoreKeys |-> NoRow]
    /\ stored = [file |-> [k \in StoreKeys |-> UNDEF],
                 sqlite |-> [k \in StoreKeys |-> UNDEF]]
    /\ vaultOp = VaultResult("init", << >>, "ok", "ok")
    /\ packages = [p \in AllPackages |-> NoPackage]
    /\ pkgCache = [p \in CachePaths |-> NoPackage]
    /\ pkgDisk = [p \in CachePaths |-> 1]
    /\ rollbackRegistry = [f \in ModuleFiles |-> NoPackage]
    /\ pkgLoads = 0
    /\ pkgOp = PkgResult("init", UNDEF, NoPackage)

\* A registration that records a backing path for the in-memory instance.
RegisterWithPath(name, instance) ==
    /\ modules' = [modules EXCEPT ![name] =
           [present |-> TRUE, instance |-> instance, backup |-> UNDEF,
            path |-> "p", versions |-> << >>, currentVersion |-> NoKey]]
    /\ lastOp' = Result("register", name, 0, "ok")
    /\ UNCHANGED <<vault, files, cache, now, config, storeVars, pkgVars>>

\* register(name, instance)
Register(name, instance) ==
    /\ modules' = [modules EXCEPT ![name] =
           [present |-> TRUE, instance |-> instance, backup |-> UNDEF,
            path |-> UNDEF, versions |-> << >>, currentVersion |-> NoKey]]
    /\ lastOp' = Result("register", name, 0, "ok")
    /\ UNCHANGED <<vault, files, cache, now, config, storeVars, pkgVars>>

\* get(name)
GetReturn(name) == modules[name].instance

Get(name) ==
    /\ lastOp' = Result("get", name, 0,
                        IF modules[name].present THEN "ok" ELSE "NotRegistered")
    /\ UNCHANGED <<modules, vault, files, cache, now, config, storeVars, pkgVars>>

\* require(path): the host's module loader with its cache.  A cached path is
\* served from the cache without touching the file; otherwise the file is
\* read and evaluated, and the result is cached.
Require(c, f, path, fault) ==
    IF c[path] # NotCached
      THEN [ok |-> TRUE, instance |-> c[path], cache |-> c]
    ELSE IF fault \in {"read", "load"}
      THEN [ok |-> FALSE, instance |-> UNDEF, cache |-> c]
    ELSE [ok |-> TRUE, instance |-> LoadModule(f[path]),
          cache |-> [c EXCEPT ![path] = LoadModule(f[path])]]

\* delete require.cache[require.resolve(path)]
DeleteCache(c, path) == [c EXCEPT ![path] = NotCached]

\* registerFromFile(name, modulePath)
RegisterFromFile(name, modulePath, fault) ==
    LET r == Require(cache, files, modulePath, fault)
        key == makeVersionKey(name)
    IN  IF ~r.ok
          THEN /\ lastOp' = Result("registerFromFile", name, 0, "LoadError")
               /\ UNCHANGED <<modules, vault, files, cache, now, config, storeVars, pkgVars>>
        ELSE IF fault \in {"read", "vault"}
          THEN /\ lastOp' = Result("registerFromFile", name, 0, "IOError")
               /\ cache' = r.cache
               /\ UNCHANGED <<modules, vault, files, now, config, storeVars, pkgVars>>
        ELSE /\ vault' = VaultStore(vault, key, files[modulePath])
             /\ modules' = [modules EXCEPT ![name] =
                    [present |-> TRUE, instance |-> r.instance, backup |-> UNDEF,
                     path |-> modulePath, versions |-> <<VersionMeta(key)>>,
                     currentVersion |-> key]]
             /\ cache' = r.cache
             /\ lastOp' = Result("registerFromFile", name, 0, "ok")
             /\ UNCHANGED <<files, now, config, storeVars, pkgVars>>

\* reload(name), on an entry whose version log may grow to `limit` records
ReloadWithin(name, fault, limit) ==
    LET entry == modules[name]
        code == files[entry.path]
        key == makeVersionKey(name)
        pushed == [entry EXCEPT !.versions = Append(@, VersionMeta(key)),
                                !.currentVersion = key,
                                !.backup = entry.instance]
    IN  /\ (entry.present /\ ~Falsy(entry.path)) => Len(entry.versions) < limit
        /\ IF ~entry.present
             THEN /\ lastOp' = Result("reload", name, 0, "NotRegistered")
                  /\ UNCHANGED <<modules, vault, files, cache, now, config, storeVars, pkgVars>>
           ELSE IF Falsy(entry.path)
             THEN /\ lastOp' = Result("reload", name, 0, "NoBackingFile")
                  /\ UNCHANGED <<modules, vault, files, cache, now, config, storeVars, pkgVars>>
           ELSE IF fault \in {"read", "vault"}
             THEN /\ lastOp' = Result("reload", name, 0, "IOError")
                  /\ UNCHANGED <<modules, vault, files, cache, now, config, storeVars, pkgVars>>
           ELSE IF fault = "load"
             THEN /\ vault' = VaultStore(vault, key, code)
                  /\ modules' = [modules EXCEPT ![name] = pushed]
                  /\ cache' = DeleteCache(cache, entry.path)
                  /\ lastOp' = Result("reload", name, 0, "LoadError")
                  /\ UNCHANGED <<files, now, config, storeVars, pkgVars>>
           ELSE /\ vault' = VaultStore(vault, key, code)
                /\ modules' = [modules EXCEPT ![name] =
                       [pushed EXCEPT !.instance = LoadModule(code)]]
                /\ cache' = [cache EXCEPT ![entry.path] = LoadModule(code)]
                /\ lastOp' = Result("reload", name, 0, "ok")
                /\ UNCHANGED <<files, now, config, storeVars, pkgVars>>

\* reload(name)
Reload(name, fault) == ReloadWithin(name, fault, MaxVersions)

\* reloadInstance(name, newInstance, sourceCode?)
ReloadInstance(name, newInstance, sourceCode, fault) ==
    LET entry == modules[name]
        key == makeVersionKey(name)
        archive == ~Falsy(entry.path) /\ sourceCode # UNDEF
        pushed == [entry EXCEPT !.versions = Append(@, VersionMeta(key)),
                                !.currentVersion = key]
        base == IF archive THEN pushed ELSE entry
    IN  /\ (entry.present /\ archive) => Len(entry.versions) < MaxVersions
        /\ IF ~entry.present
             THEN /\ lastOp' = Result("reloadInstance", name, 0, "NotRegistered")
                  /\ UNCHANGED <<modules, vault, files, cache, now, config, storeVars, pkgVars>>
           ELSE IF archive /\ fault = "vault"
             THEN /\ lastOp' = Result("reloadInstance", name, 0, "IOError")
                  /\ UNCHANGED <<modules, vault, files, cache, now, config, storeVars, pkgVars>>
           ELSE IF archive /\ fault = "write"
             THEN /\ vault' = VaultStore(vault, key, sourceCode)
                  /\ modules' = [modules EXCEPT ![name] = pushed]
                  /\ lastOp' = Result("reloadInstance", name, 0, "IOError")
                  /\ UNCHANGED <<files, cache, now, config, storeVars, pkgVars>>
           ELSE /\ vault' = IF archive THEN VaultStore(vault, key, sourceCode) ELSE vault
                /\ files' = IF archive THEN [files EXCEPT ![entry.path] = sourceCode]
                                       ELSE files
                /\ modules' = [modules EXCEPT ![name] =
                       [base EXCEPT !.backup = entry.instance,
                                    !.instance = newInstance]]
                /\ lastOp' = Result("reloadInstance", name, 0, "ok")
                /\ UNCHANGED <<cache, now, config, storeVars, pkgVars>>

\* An index computed one position too far towards the tail of the log.
TargetIndexOffByOne(historyLength, steps) == historyLength - steps

\* const targetIndex = historyLength - 1 - steps
TargetIndex(historyLength, steps) == historyLength - 1 - steps

\* rollback(name, steps = 1)
Rollback(name, steps, fault) ==
    LET entry == modules[name]
        historyLength == Len(entry.versions)
        targetIndex == TargetIndex(historyLength, steps)
        target == entry.versions[targetIndex + 1]
        code == IF fault = "vault" THEN UNDEF ELSE VaultLoad(vault, target.key)
    IN  IF ~entry.present
          THEN /\ lastOp' = Result("rollback", name, steps, "NotRegistered")
               /\ UNCHANGED <<modules, vault, files, cache, now, config, storeVars, pkgVars>>
        ELSE IF Falsy(entry.path) \/ historyLength = 0
          THEN IF Falsy(entry.backup)
                 THEN /\ lastOp' = Result("rollback", name, steps, "NoBackup")
                      /\ UNCHANGED <<modules, vault, files, cache, now, config, storeVars, pkgVars>>
               ELSE /\ modules' = [modules EXCEPT ![name] =
                           [entry EXCEPT !.instance = entry.backup,
                                         !.backup = entry.instance]]
                    /\ lastOp' = Result("rollback", name, steps, "ok")
                    /\ UNCHANGED <<vault, files, cache, now, config, storeVars, pkgVars>>
        ELSE IF targetIndex < 0
          THEN /\ lastOp' = Result("rollback", name, steps, "OutOfRange")
               /\ UNCHANGED <<modules, vault, files, cache, now, config, storeVars, pkgVars>>
        ELSE IF targetIndex >= historyLength
          THEN /\ lastOp' = Result("rollback", name, steps, "TypeError")
               /\ UNCHANGED <<modules, vault, files, cache, now, config, storeVars, pkgVars>>
        ELSE IF fault = "vault"
          THEN /\ lastOp' = Result("rollback", name, steps, "IOError")
               /\ UNCHANGED <<modules, vault, files, cache, now, config, storeVars, pkgVars>>
        ELSE IF Falsy(code)
          THEN /\ lastOp' = Result("rollback", name, steps, "NotFound")
               /\ UNCHANGED <<modules, vault, files, cache, now, config, storeVars, pkgVars>>
        ELSE IF fault = "write"
          THEN /\ lastOp' = Result("rollback", name, steps, "IOError")
               /\ UNCHANGED <<modules, vault, files, cache, now, config, storeVars, pkgVars>>
        ELSE IF fault = "load"
          THEN /\ files' = [files EXCEPT ![entry.path] = code]
               /\ cache' = DeleteCache(cache, entry.path)
               /\ modules' = [modules EXCEPT ![name] =
                      [entry EXCEPT !.backup = entry.instance]]
               /\ lastOp' = Result("rollback", name, steps, "LoadError")
               /\ UNCHANGED <<vault, now, config, storeVars, pkgVars>>
        ELSE /\ files' = [files EXCEPT ![entry.path] = code]
             /\ cache' = [cache EXCEPT ![entry.path] = LoadModule(code)]
             /\ modules' = [modules EXCEPT ![name] =
                    [entry EXCEPT !.backup = entry.instance,
                                  !.instance = LoadModule(code),
                                  !.versions = SubSeq(entry.versions, 1, targetIndex + 1),
                                  !.currentVersion = target.key]]
             /\ lastOp' = Result("rollback", name, steps, "ok")
             /\ UNCHANGED <<vault, now, config, storeVars, pkgVars>>

\* The registry, the Store, the files and the require cache as one value.
RegistryState(ms, v, f, c) == [modules |-> ms, vault |-> v, files |-> f, cache |-> c]

\* rollback(name, steps) as a function of the state it is called in, when no
\* I/O step and no evaluation fails: the state it returns or throws in.
RollbackFrom(st, name, steps) ==
    LET entry == st.modules[name]
        historyLength == Len(entry.versions)
        targetIndex == TargetIndex(historyLength, steps)
        target == entry.versions[targetIndex + 1]
        code == VaultLoad(st.vault, target.key)
    IN  IF ~entry.present
          THEN st
        ELSE IF Falsy(entry.path) \/ historyLength = 0
          THEN IF Falsy(entry.backup)
                 THEN st
               ELSE [st EXCEPT !.modules[name].instance = entry.backup,
                               !.modules[name].backup = entry.instance]
        ELSE IF targetIndex < 0 \/ targetIndex >= historyLength
          THEN st
        ELSE IF Falsy(code)
          THEN st
        ELSE [st EXCEPT !.files[entry.path] = code,
                        !.cache[entry.path] = LoadModule(code),
                        !.modules[name].backup = entry.instance,
                        !.modules[name].instance = LoadModule(code),
                        !.modules[name].versions = SubSeq(entry.versions, 1, targetIndex + 1),
                        !.modules[name].currentVersion = target.key]

\* history(name)
HistoryReturn(name) == modules[name].versions

\* A history that returns `entry.versions || []` without looking the name up.
HistoryUnchecked(name) ==
    /\ lastOp' = Result("history", name, 0, "ok")
    /\ UNCHANGED <<modules, vault, files, cache, now, config, storeVars, pkgVars>>

History(name) ==
    /\ lastOp' = Result("history", name, 0,
                        IF modules[name].present THEN "ok" ELSE "NotRegistered")
    /\ UNCHANGED <<modules, vault, files, cache, now, config, storeVars, pkgVars>>

\* The in-memory history an entry keeps: the single backup slot.
UndoHistory(name) ==
    IF modules[name].backup = UNDEF THEN << >> ELSE <<modules[name].backup>>

\* The entry keeps no record of values rolled back away from.
RedoHistory(name) == << >>

\* rollForward(name), which the REPL's .forward command calls: it needs a
\* non-empty redo history to pop from.
RollForward(name) ==
    /\ lastOp' = Result("rollForward", name, 0,
                        IF ~modules[name].present THEN "NotRegistered"
                        ELSE IF RedoHistory(name) = << >> THEN "NoForwardAvailable"
                        ELSE "ok")
    /\ RedoHistory(name) = << >>
    /\ UNCHANGED <<modules, vault, files, cache, now, config, storeVars, pkgVars>>

\* reloadFromFile(name, filePath) of the REPL context: a fresh require of
\* filePath handed to reloadInstance.
ReloadFromFile(name, filePath) ==
    LET entry == modules[name]
        newModule == LoadModule(files[filePath])
    IN  /\ cache' = [cache EXCEPT ![filePath] = newModule]
        /\ IF ~entry.present
             THEN /\ lastOp' = Result("reloadFromFile", name, 0, "NotRegistered")
                  /\ UNCHANGED modules
           ELSE /\ modules' = [modules EXCEPT ![name] =
                       [entry EXCEPT !.backup = entry.instance,
                                     !.instance = newModule]]
                /\ lastOp' = Result("reloadFromFile", name, 0, "ok")
        /\ UNCHANGED <<vault, files, now, config, storeVars, pkgVars>>

\* ------------------------------------------------------------ PatchPackages
\* The modules a module requires when it is evaluated, in order; they
\* become the children of its entry in the require cache.
Requires(path) ==
    CASE path = "top" -> <<"pkgA">>
      [] path = "cycA" -> <<"cycB">>
      [] path = "cycB" -> <<"cycA">>
      [] path = "patchB" -> <<"mod">>
      [] OTHER -> << >>

\* What a call that overflowed the stack returns.
RangeError == <<"RangeError">>

\* Node's require: a module not yet cached is entered in the cache under a
\* new exports object, then evaluated, which requires its dependencies.
\* st is the cache with the number of loads made so far.
RECURSIVE HostLoad(_, _), HostLoadAll(_, _)
HostLoad(st, path) ==
    IF st.cache[path] # NoPackage
      THEN st
    ELSE HostLoadAll([cache |-> [st.cache EXCEPT ![path] = <<pkgDisk[path], st.loads + 1>>],
                      loads |-> st.loads + 1],
                     Requires(path))

HostLoadAll(st, paths) ==
    IF paths = << >> THEN st ELSE HostLoadAll(HostLoad(st, Head(paths)), Tail(paths))

\* require(name): the cached instance, or a fresh load of the installed
\* version.
PkgRequire(c, name) ==
    LET st == HostLoad([cache |-> c, loads |-> pkgLoads], name)
    IN  [instance |-> st.cache[name], cache |-> st.cache, loads |-> st.loads]

\* PatchPackages.get(name) on the package table pk and require cache c.
PkgGetReturn(pk, c, name) ==
    IF pk[name] = NoPackage
      THEN LET r == PkgRequire(c, name)
           IN  [instance |-> r.instance, packages |-> [pk EXCEPT ![name] = r.instance],
                cache |-> r.cache, loads |-> r.loads]
    ELSE [instance |-> pk[name], packages |-> pk, cache |-> c, loads |-> pkgLoads]

\* clearCache(modulePath) entered at the given stack depth: the cache it
\* leaves, and whether it returned or overflowed the stack.
RECURSIVE ClearCacheAt(_, _, _), ClearChildren(_, _, _)
ClearCacheAt(c, modulePath, depth) ==
    IF depth > StackLimit
      THEN [cache |-> c, ok |-> FALSE]
    ELSE IF c[modulePath] = NoPackage
      THEN [cache |-> c, ok |-> TRUE]
    ELSE LET r == ClearChildren(c, Requires(modulePath), depth + 1)
         IN  IF r.ok THEN [cache |-> [r.cache EXCEPT ![modulePath] = NoPackage],
                           ok |-> TRUE]
             ELSE r

\* for (const child of mod.children) this.clearCache(child.id)
ClearChildren(c, children, depth) ==
    IF children = << >>
      THEN [cache |-> c, ok |-> TRUE]
    ELSE LET r == ClearCacheAt(c, Head(children), depth)
         IN  IF r.ok THEN ClearChildren(r.cache, Tail(children), depth) ELSE r

\* clearCache(modulePath)
ClearCache(c, name) == ClearCacheAt(c, name, 1)

\* PatchPackages.reload(name): clearCache, then get.
PkgReloadReturn(pk, c, name) ==
    LET cleared == ClearCache(c, name)
    IN  IF cleared.ok
          THEN PkgGetReturn(pk, cleared.cache, name)
        ELSE [instance |-> RangeError, packages |-> pk, cache |-> cleared.cache,
              loads |-> pkgLoads]

PkgGet(name) ==
    LET r == PkgGetReturn(packages, pkgCache, name)
    IN  /\ r.loads <= MaxLoads
        /\ packages' = r.packages
        /\ pkgCache' = r.cache
        /\ pkgLoads' = r.loads
        /\ pkgOp' = PkgResult("get", name, r.instance)
        /\ UNCHANGED <<pkgDisk, rollbackRegistry, registryVars, storeVars>>

PkgReload(name) ==
    LET r == PkgReloadReturn(packages, pkgCache, name)
    IN  /\ r.loads <= MaxLoads
        /\ packages' = r.packages
        /\ pkgCache' = r.cache
        /\ pkgLoads' = r.loads
        /\ pkgOp' = PkgResult("reload", name, r.instance)
        /\ UNCHANGED <<pkgDisk, rollbackRegistry, registryVars, storeVars>>

\* .npmupdate <pkg>: npm installs the next version, then patchPackages.reload.
NpmUpdate(name) ==
    LET r == PkgReloadReturn(packages, pkgCache, name)
    IN  /\ pkgDisk[name] < MaxPkgVersion
        /\ r.loads <= MaxLoads
        /\ pkgDisk' = [pkgDisk EXCEPT ![name] = @ + 1]
        /\ packages' = r.packages
        /\ pkgCache' = r.cache
        /\ pkgLoads' = r.loads
        /\ pkgOp' = PkgResult("npmupdate", name, r.instance)
        /\ UNCHANGED <<rollbackRegistry, registryVars, storeVars>>

\* patchPackages.clearCache(modulePath), called on its own.
ClearCacheCall(modulePath) ==
    LET r == ClearCache(pkgCache, modulePath)
    IN  /\ pkgCache' = r.cache
        /\ pkgOp' = PkgResult("clearCache", modulePath,
                              IF r.ok THEN NoPackage ELSE RangeError)
        /\ UNCHANGED <<packages, pkgDisk, pkgLoads, rollbackRegistry,
                       registryVars, storeVars>>

\* ------------------------------------------- patchLoader, rollbackManager
PatchResult(op, name, patch, res) ==
    [op |-> op, name |-> name, patch |-> patch, result |-> res]

TypeError == <<"TypeError">>
NotInCache == <<"Module not in cache">>
NoPatch == <<"No patch to rollback">>
Done == <<"ok">>

\* The program requires one of its own module files.
HostRequire(path) ==
    LET r == PkgRequire(pkgCache, path)
    IN  /\ r.loads <= MaxLoads
        /\ pkgCache' = r.cache
        /\ pkgLoads' = r.loads
        /\ pkgOp' = PatchResult("require", path, UNDEF, r.instance)
        /\ UNCHANGED <<packages, pkgDisk, rollbackRegistry, registryVars, storeVars>>

\* applyPatch(modulePath, patchPath), both files existing.
ApplyPatch(modulePath, patchPath) ==
    LET loaded == PkgRequire(pkgCache, modulePath)
        cachedModule == loaded.cache[modulePath]
        deleted == [loaded.cache EXCEPT ![modulePath] = NoPackage]
        st == HostLoad([cache |-> deleted, loads |-> loaded.loads], patchPath)
        patchModule == st.cache[patchPath]
    IN  /\ st.loads <= MaxLoads
        /\ rollbackRegistry' = [rollbackRegistry EXCEPT ![modulePath] = cachedModule]
        /\ pkgLoads' = st.loads
        /\ IF st.cache[modulePath] = NoPackage
             THEN /\ pkgCache' = st.cache
                  /\ pkgOp' = PatchResult("applyPatch", modulePath, patchPath, TypeError)
           ELSE /\ pkgCache' = [st.cache EXCEPT ![modulePath] = patchModule]
                /\ pkgOp' = PatchResult("applyPatch", modulePath, patchPath, patchModule)
        /\ UNCHANGED <<packages, pkgDisk, registryVars, storeVars>>

\* rollback(modulePath) of rollbackManager
RollbackPatch(modulePath) ==
    /\ IF pkgCache[modulePath] = NoPackage
         THEN /\ pkgOp' = PatchResult("rollback", modulePath, UNDEF, NotInCache)
              /\ UNCHANGED <<pkgCache, rollbackRegistry>>
       ELSE IF rollbackRegistry[modulePath] = NoPackage
         THEN /\ pkgOp' = PatchResult("rollback", modulePath, UNDEF, NoPatch)
              /\ UNCHANGED <<pkgCache, rollbackRegistry>>
       ELSE /\ pkgCache' = [pkgCache EXCEPT ![modulePath] = rollbackRegistry[modulePath]]
            /\ rollbackRegistry' = [rollbackRegistry EXCEPT ![modulePath] = NoPackage]
            /\ pkgOp' = PatchResult("rollback", modulePath, UNDEF, Done)
    /\ UNCHANGED <<packages, pkgDisk, pkgLoads, registryVars, storeVars>>

\* ------------------------------------------------ CodeVault used on its own
\* The same call is made on a vault built with the file backend and on one
\* built with the sqlite backend; `stored` records, per backend, the payload
\* of the latest store call that returned for each key, until the key is
\* removed.
StoreCall(key, code) ==
    LET f == FileStore(vaultDir, key, code)
    IN  /\ vaultDir' = f.dir
        /\ vaultDb' = VaultStore(vaultDb, key, code)
        /\ stored' = [file |-> IF f.ok THEN [stored.file EXCEPT ![key] = code]
                                       ELSE stored.file,
                      sqlite |-> [stored.sqlite EXCEPT ![key] = code]]
        /\ vaultOp' = VaultResult("store", key, IF f.ok THEN "ok" ELSE "IOError", "ok")
        /\ UNCHANGED <<registryVars, pkgVars>>

LoadCall(key) ==
    /\ vaultOp' = VaultResult("load", key, FileLoad(vaultDir, key), VaultLoad(vaultDb, key))
    /\ UNCHANGED <<vaultDir, vaultDb, stored, registryVars, pkgVars>>

RemoveCall(key) ==
    /\ vaultDir' = FileRemove(vaultDir, key)
    /\ vaultDb' = VaultRemove(vaultDb, key)
    /\ stored' = [file |-> [stored.file EXCEPT ![key] = UNDEF],
                  sqlite |-> [stored.sqlite EXCEPT ![key] = UNDEF]]
    /\ vaultOp' = VaultResult("remove", key, "ok", "ok")
    /\ UNCHANGED <<registryVars, pkgVars>>

\* ----------------------------------------------------------------- the REPL
\* .setconfig max_rollback_cache <value>
SetConfig(value) ==
    /\ config' = [config EXCEPT !.max_rollback_cache = value]
    /\ lastOp' = Result("setconfig", UNDEF, 0, "ok")
    /\ UNCHANGED <<modules, vault, files, cache, now, storeVars, pkgVars>>

\* ------------------------------------------------------------- environment
\* The developer edits the backing file between calls.
EditFile(path, content) ==
    /\ files[path] # content
    /\ files' = [files EXCEPT ![path] = content]
    /\ lastOp' = Result("editFile", UNDEF, 0, "ok")
    /\ UNCHANGED <<modules, vault, cache, now, config, storeVars, pkgVars>>

\* Date.now() advances between calls.  The clock is read only to build a
\* version key, so an advance is modelled once the current instant has been
\* used for one: two advances with no read between them are indistinguishable
\* from one.
Tick ==
    /\ now < MaxClock
    /\ \E name \in Names : vault[<<name, now>>] # NoRow
    /\ now' = now + 1
    /\ lastOp' = Result("tick", UNDEF, 0, "ok")
    /\ UNCHANGED <<modules, vault, files, cache, config, storeVars, pkgVars>>

\* ---------------------------------------------------------- specifications
\* One file-backed name with its backing file, archive and clock.
Next ==
    \/ \E name \in FileNames, instance \in FileSpecInstances : Register(name, instance)
    \/ \E name \in FileNames, path \in Paths, fault \in LoadFaults :
           RegisterFromFile(name, path, fault)
    \/ \E name \in FileNames : Get(name)
    \/ \E name \in FileNames, fault \in LoadFaults : Reload(name, fault)
    \/ \E name \in FileNames, instance \in FileSpecInstances, src \in SourceArgs,
          fault \in InstallFaults : ReloadInstance(name, instance, src, fault)
    \/ \E name \in FileNames, steps \in StepsArgs, fault \in RollbackFaults :
           Rollback(name, steps, fault)
    \/ \E name \in FileNames : History(name)
    \/ \E path \in Paths, content \in Contents : EditFile(path, content)
    \/ Tick

Spec == Init /\ [][Next]_vars

\* Two names registered in memory, one of which may also be registered from
\* its file, and the configuration; no call meets an environment fault.
NextMem ==
    \/ \E name \in Names, instance \in MemInstances : Register(name, instance)
    \/ \E name \in FileNames, path \in Paths : RegisterFromFile(name, path, "none")
    \/ \E name \in Names : Get(name)
    \/ \E name \in Names : Reload(name, "none")
    \/ \E name \in Names, instance \in MemInstances, src \in SourceArgs :
           ReloadInstance(name, instance, src, "none")
    \/ \E name \in Names, steps \in StepsArgs : Rollback(name, steps, "none")
    \/ \E name \in Names : History(name)
    \/ \E name \in Names : RollForward(name)
    \/ \E value \in DepthArgs : SetConfig(value)

SpecMem == Init /\ [][NextMem]_vars

\* One name, registered in memory or from its file, re-loaded from its own
\* path or from another file.
NextRebind ==
    \/ \E name \in FileNames, instance \in FileSpecInstances : Register(name, instance)
    \/ \E name \in FileNames, path \in Paths : RegisterFromFile(name, path, "none")
    \/ \E name \in FileNames : Reload(name, "none")
    \/ \E name \in FileNames, path \in ReloadPaths : ReloadFromFile(name, path)
    \/ \E name \in FileNames, steps \in StepsArgs : Rollback(name, steps, "none")
    \/ \E path \in Paths, content \in Contents : EditFile(path, content)

SpecRebind == Init /\ [][NextRebind]_vars

\* A CodeVault on each backend, driven by the same calls.
NextVault ==
    \/ \E key \in StoreKeys, code \in Payloads : StoreCall(key, code)
    \/ \E key \in StoreKeys : LoadCall(key)
    \/ \E key \in StoreKeys : RemoveCall(key)

SpecVault == Init /\ [][NextVault]_vars

\* PatchPackages and the npm commands of the REPL.
NextPkg ==
    \/ \E name \in PackageNames : PkgGet(name)
    \/ \E name \in PackageNames : PkgReload(name)
    \/ \E name \in PackageNames : NpmUpdate(name)

SpecPkg == Init /\ [][NextPkg]_vars

\* One file-backed name whose version log grows to MaxChain records, so that
\* two rollbacks in a row both have a version to go back to.
NextChain ==
    \/ \E name \in FileNames, path \in Paths : RegisterFromFile(name, path, "none")
    \/ \E name \in FileNames : ReloadWithin(name, "none", MaxChain)
    \/ \E name \in FileNames, steps \in StepsArgs : Rollback(name, steps, "none")
    \/ \E path \in Paths, content \in Contents : EditFile(path, content)
    \/ Tick

SpecChain == Init /\ [][NextChain]_vars

\* Whole-file patches applied to a module of the program and rolled back.
NextPatch ==
    \/ \E path \in ModuleFiles : HostRequire(path)
    \/ \E path \in ModuleFiles, patch \in PatchFiles : ApplyPatch(path, patch)
    \/ \E path \in ModuleFiles : RollbackPatch(path)

SpecPatch == Init /\ [][NextPatch]_vars

\* Packages with dependencies, loaded, reloaded and cleared from the cache.
NextGraph ==
    \/ \E name \in AllPackages : PkgGet(name)
    \/ \E name \in AllPackages : PkgReload(name)
    \/ \E path \in AllPackages : ClearCacheCall(path)

SpecGraph == Init /\ [][NextGraph]_vars

\* Two names bound to one file.  One is registered from the file and
\* reloaded; the other is registered in memory or from the file, reloaded,
\* given new instances and rolled back.
NextPair ==
    \/ \E name \in Names \ FileNames, instance \in FileSpecInstances :
           Register(name, instance)
    \/ \E name \in Names, path \in Paths : RegisterFromFile(name, path, "none")
    \/ \E name \in Names : Reload(name, "none")
    \/ \E name \in Names \ FileNames, instance \in FileSpecInstances,
          src \in SourceArgs : ReloadInstance(name, instance, src, "none")
    \/ \E name \in Names \ FileNames, steps \in StepsArgs :
           Rollback(name, steps, "none")
    \/ Tick

SpecPair == Init /\ [][NextPair]_vars
\* ------------------------------------------------------------------ claims
InMemory(name) == modules[name].present /\ Falsy(modules[name].path)

FileBacked(name) == modules[name].present /\ ~Falsy(modules[name].path)

\* a is a prefix of b.
IsPrefix(a, b) == Len(a) <= Len(b) /\ SubSeq(b, 1, Len(a)) = a

\* The last k elements of a sequence.
LastN(seq, k) == IF Len(seq) <= k THEN seq ELSE SubSeq(seq, Len(seq) - k + 1, Len(seq))

\* C1: swap transparency.  With h the value get(n) returns before a
\* successful reloadInstance(n, B), every access made through h after the
\* call is served by B, the entry's new current value.
C1_SwapTransparency ==
    [][\A name \in Names :
          (lastOp' = Result("reloadInstance", name, 0, "ok"))
          => ServedBy(GetReturn(name)) = modules'[name].instance]_vars

\* C2: handle stability.  get(n) returns the same identity before and after
\* every reload, reloadInstance and rollback call on a registered n.
C2_HandleStability ==
    [][\A name \in Names :
          (/\ modules[name].present
           /\ lastOp'.name = name
           /\ lastOp'.op \in {"reload", "reloadInstance", "rollback"})
          => GetReturn(name)' = GetReturn(name)]_vars

\* C3: install pushes the previous current.  A successful reloadInstance on
\* an in-memory entry keeps the value v that was current, whatever v is, and
\* a rollback(n) issued right after it succeeds and makes v current again.
C3_InstallPushesPrevious ==
    [][\A name \in Names :
          /\ (InMemory(name) /\ lastOp' = Result("reloadInstance", name, 0, "ok"))
             => modules'[name].backup = modules[name].instance
          /\ (/\ InMemory(name)
              /\ lastOp = Result("reloadInstance", name, 0, "ok")
              /\ lastOp'.op = "rollback" /\ lastOp'.name = name /\ lastOp'.arg = 1)
             => (/\ lastOp'.result = "ok"
                 /\ modules'[name].instance = modules[name].backup)]_vars

\* C4: redo invalidation.  Right after a successful rollback(n) the redo
\* history of n holds exactly one entry, and right after a successful
\* reloadInstance(n, x) it is empty.
C4_RedoInvalidation ==
    \A name \in Names :
       /\ (lastOp.op = "rollback" /\ lastOp.name = name /\ lastOp.result = "ok")
          => Len(RedoHistory(name)) = 1
       /\ (lastOp.op = "reloadInstance" /\ lastOp.name = name /\ lastOp.result = "ok")
          => Len(RedoHistory(name)) = 0

\* C5: undo bound.  The undo history never holds more than maxRollbackDepth
\* values, and each successful reloadInstance appends the previous current
\* to it, evicting the oldest value only when the configured depth (read at
\* that push) is exceeded.
C5_UndoBound ==
    [][\A name \in Names :
          /\ Len(UndoHistory(name)') <= config'.max_rollback_cache
          /\ (InMemory(name) /\ lastOp' = Result("reloadInstance", name, 0, "ok"))
             => UndoHistory(name)' =
                  LastN(Append(UndoHistory(name), modules[name].instance),
                        config.max_rollback_cache)]_vars

\* C6: a reload(n) that fails, for whatever reason, leaves the entry's
\* current value, its backup slot and its redo history as they were.
C6_FailedReloadLeavesEntry ==
    [][\A name \in FileNames :
          (lastOp'.op = "reload" /\ lastOp'.name = name /\ lastOp'.result # "ok")
          => (/\ modules'[name].instance = modules[name].instance
              /\ modules'[name].backup = modules[name].backup
              /\ RedoHistory(name)' = RedoHistory(name))]_vars

\* C7: rollback by steps.  On a file-backed entry with version log
\* [v0, ..., vk] and 1 <= s <= k, rollback(n, s), unless an I/O step or the
\* module's evaluation fails, succeeds: it writes the payload archived under
\* v(k-s)'s key to the backing file, installs the implementation loaded from
\* it, sets currentVersionKey to that key and leaves the log [v0, ..., v(k-s)].
C7_RollbackBySteps ==
    [][\A name \in FileNames :
          (/\ FileBacked(name)
           /\ lastOp'.op = "rollback" /\ lastOp'.name = name
           /\ lastOp'.arg >= 1
           /\ lastOp'.arg <= Len(modules[name].versions) - 1
           /\ lastOp'.result \notin {"IOError", "LoadError"})
          => LET entry == modules[name]
                 at == Len(entry.versions) - lastOp'.arg
                 target == entry.versions[at]
             IN  /\ lastOp'.result = "ok"
                 /\ files'[entry.path] = VaultLoad(vault, target.key)
                 /\ modules'[name].instance = LoadModule(files'[entry.path])
                 /\ modules'[name].currentVersion = target.key
                 /\ HistoryReturn(name)' = SubSeq(entry.versions, 1, at)]_vars

\* C8: on a file-backed entry whose version log has length L, rollback(n, s)
\* with s > L - 1 fails with the out-of-range error and leaves the registry
\* (current value, backup, version log, currentVersionKey), the backing
\* file, the Store and the require cache unchanged.
C8_OutOfRangePersistedRollback ==
    [][(/\ lastOp'.op = "rollback"
        /\ FileBacked(lastOp'.name)
        /\ lastOp'.arg > Len(modules[lastOp'.name].versions) - 1)
       => (/\ lastOp'.result = "OutOfRange"
           /\ UNCHANGED <<modules, vault, files, cache>>)]_vars

C8_Witness ==
    /\ lastOp = Result("rollback", "m", 99, "OutOfRange")
    /\ FileBacked("m")
    /\ Len(modules["m"].versions) = 2
    /\ modules["m"].backup # UNDEF

\* C9: on an in-memory entry whose undo history holds d values, rollback(n, s)
\* with s > d fails and leaves the registry unchanged.
C9_OutOfRangeInMemoryRollback ==
    [][\A name \in Names :
          (/\ InMemory(name)
           /\ lastOp'.op = "rollback" /\ lastOp'.name = name
           /\ lastOp'.arg > Len(UndoHistory(name)))
          => (/\ lastOp'.result \in {"OutOfRange", "NoBackup"}
              /\ modules' = modules)]_vars

\* C10: no history available.  rollback(n) on an in-memory entry that was
\* never reloaded fails and leaves current unchanged; and with a rollback
\* depth of 1, where a successful rollback consumes the only value pushed, a
\* rollback(n) issued right after a successful rollback(n) fails and leaves
\* current unchanged.
C10_NoHistoryAvailable ==
    [][\A name \in Names :
          (/\ InMemory(name)
           /\ lastOp'.op = "rollback" /\ lastOp'.name = name
           /\ \/ modules[name].backup = UNDEF
              \/ /\ config.max_rollback_cache = 1
                 /\ lastOp = Result("rollback", name, 1, "ok")
                 /\ lastOp'.arg = 1)
          => (/\ lastOp'.result = "NoBackup"
              /\ modules'[name].instance = modules[name].instance)]_vars

\* C11: roll-forward round trip.  On an in-memory entry, a rollForward(n)
\* issued right after a successful rollback(n) succeeds, makes the value
\* rolled back away from current again and leaves the undo history holding
\* the value the rollback restored; a rollForward(n) issued right after a
\* register or reloadInstance (empty redo history) fails with
\* NoForwardAvailable and changes nothing.
C11_RollForwardRoundTrip ==
    [][\A name \in Names :
          /\ (/\ InMemory(name)
              /\ lastOp = Result("rollback", name, 1, "ok")
              /\ lastOp'.op = "rollForward" /\ lastOp'.name = name)
             => (/\ lastOp'.result = "ok"
                 /\ modules'[name].instance = modules[name].backup
                 /\ UndoHistory(name)' = <<modules[name].instance>>)
          /\ (/\ InMemory(name)
              /\ lastOp.name = name /\ lastOp.result = "ok"
              /\ lastOp.op \in {"register", "reloadInstance"}
              /\ lastOp'.op = "rollForward" /\ lastOp'.name = name)
             => (/\ lastOp'.result = "NoForwardAvailable"
                 /\ modules' = modules)]_vars

\* C12: incompatible reload rejection.  When reload(n) gets as far as loading
\* its candidate and the candidate's shape class differs from the current
\* value's, it fails with IncompatibleReplacement and current stays the
\* original value.
C12_IncompatibleReloadRejected ==
    [][\A name \in FileNames :
          (/\ FileBacked(name)
           /\ lastOp'.op = "reload" /\ lastOp'.name = name
           /\ lastOp'.result \notin {"IOError", "LoadError"}
           /\ ShapeOf(LoadModule(files[modules[name].path]))
                # ShapeOf(modules[name].instance))
          => (/\ lastOp'.result = "IncompatibleReplacement"
              /\ modules'[name].instance = modules[name].instance)]_vars

\* C13: duplicate registration is rejected.  register(n, x) on a registered
\* name fails with a naming conflict and leaves the entry unchanged; on an
\* unregistered name it succeeds and creates an entry with current x, empty
\* history and no path.
C13_DuplicateRegistrationRejected ==
    [][\A name \in FileNames :
          (lastOp'.op = "register" /\ lastOp'.name = name)
          => IF modules[name].present
               THEN /\ lastOp'.result = "NamingConflict"
                    /\ modules'[name] = modules[name]
               ELSE /\ lastOp'.result = "ok"
                    /\ InMemory(name)'
                    /\ UndoHistory(name)' = << >>
                    /\ HistoryReturn(name)' = << >>]_vars

\* C14: each of get, reload, reloadInstance, rollback and history called with
\* a name absent from the registry fails with the not-registered error and
\* leaves the registry, the Store and the backing files unchanged.
C14_NotRegistered ==
    [][(/\ lastOp'.op \in {"get", "reload", "reloadInstance", "rollback", "history"}
        /\ ~modules[lastOp'.name].present)
       => (/\ lastOp'.result = "NotRegistered"
           /\ UNCHANGED <<modules, vault, files>>)]_vars

C14_Witness ==
    /\ lastOp = Result("history", "n", 0, "NotRegistered")
    /\ ~modules["n"].present
    /\ FileBacked("m")
    /\ vault[<<"m", 0>>] # NoRow

\* C15: reload(n) on an entry without a source path fails with the
\* no-backing-file error and leaves the registry, the Store and the backing
\* files unchanged; and register, reloadInstance and rollback never give the
\* entry they act on a source path it did not have.
C15_NoBackingFile ==
    [][\A name \in Names :
          /\ (InMemory(name) /\ lastOp'.op = "reload" /\ lastOp'.name = name)
             => (/\ lastOp'.result = "NoBackingFile"
                 /\ UNCHANGED <<modules, vault, files>>)
          /\ (/\ ~FileBacked(name)
              /\ lastOp'.name = name
              /\ lastOp'.op \in {"register", "reloadInstance", "rollback"})
             => ~FileBacked(name)']_vars

C15_Witness ==
    /\ lastOp = Result("reload", "n", 0, "NoBackingFile")
    /\ InMemory("n")
    /\ modules["n"].backup = "objA"
    /\ modules["n"].instance = "objB"
    /\ vault[<<"m", 0>>] # NoRow

\* C16: the version log is append-only except for rollback truncation.  For
\* a registered name and every registry operation other than rollback the
\* log before is a prefix of the log after; for rollback the log after is a
\* prefix of the log before, non-empty on a file-backed entry.
C16_VersionLogAppendOnly ==
    [][\A name \in FileNames :
          (/\ modules[name].present
           /\ lastOp'.op \in {"register", "registerFromFile", "get", "reload",
                              "reloadInstance", "rollback", "history"})
          => IF lastOp'.op = "rollback"
               THEN /\ IsPrefix(HistoryReturn(name)', HistoryReturn(name))
                    /\ FileBacked(name) => Len(HistoryReturn(name)') >= 1
               ELSE IsPrefix(HistoryReturn(name), HistoryReturn(name)')]_vars

\* C17: log/Store consistency.  Every step that changes the registry or the
\* Store leaves every key in every entry's version log loading a payload from
\* the Store, and a rollback leaves every key the log held before it, dropped
\* or kept, loading the same payload.
C17_LogStoreConsistency ==
    [][(modules' # modules \/ vault' # vault)
       => /\ \A name \in Names :
                \A i \in 1..Len(HistoryReturn(name)') :
                   VaultLoad(vault', HistoryReturn(name)'[i].key) # UNDEF
          /\ lastOp'.op = "rollback"
               => \A i \in 1..Len(HistoryReturn(lastOp'.name)) :
                     LET key == HistoryReturn(lastOp'.name)[i].key
                     IN  /\ VaultLoad(vault, key) # UNDEF
                         /\ VaultLoad(vault', key) = VaultLoad(vault, key)]_vars

C17_Witness ==
    /\ lastOp = Result("rollback", "m", 1, "ok")
    /\ Len(modules["m"].versions) = 1
    /\ modules["m"].versions[1].key = <<"m", 0>>
    /\ vault[<<"m", 1>>] # NoRow

\* C18: artifact missing.  A persisted rollback whose target index is in the
\* log reports not-found if and only if the Store holds no artifact under the
\* target version's key, whatever the payload of a present artifact.
C18_ArtifactMissingIffAbsent ==
    [][\A name \in FileNames :
          (/\ FileBacked(name)
           /\ lastOp'.op = "rollback" /\ lastOp'.name = name
           /\ TargetIndex(Len(modules[name].versions), lastOp'.arg) >= 0
           /\ TargetIndex(Len(modules[name].versions), lastOp'.arg)
                < Len(modules[name].versions))
          => LET at == TargetIndex(Len(modules[name].versions), lastOp'.arg) + 1
                 target == modules[name].versions[at]
             IN  (lastOp'.result = "NotFound") <=> (vault[target.key] = NoRow)]_vars

\* C19: rollback is all-or-nothing.  A persisted rollback that fails leaves
\* the entry (current value, backup, version log, currentVersionKey) and the
\* backing file content exactly as before the call.
C19_RollbackAllOrNothing ==
    [][\A name \in FileNames :
          (/\ FileBacked(name)
           /\ lastOp'.op = "rollback" /\ lastOp'.name = name
           /\ lastOp'.result # "ok")
          => (/\ modules'[name] = modules[name]
              /\ files' = files)]_vars

\* C20: reloadInstance with source text keeps file and registry consistent.
\* After a successful reloadInstance(n, x, src) on a file-backed entry with
\* src supplied, the backing file holds src, the version log has grown by
\* exactly one entry whose artifact loads as src, currentVersionKey is that
\* entry's key and x is current; when the entry is not file-backed or src is
\* omitted, the version log, the Store and the files are unchanged and only
\* current and backup change.
C20_ReloadInstanceWithSource ==
    [][\A name \in FileNames, x \in FileSpecInstances, src \in SourceArgs :
          (/\ lastOp' = Result("reloadInstance", name, 0, "ok")
           /\ ReloadInstance(name, x, src, "none"))
          => LET before == modules[name]
                 after == modules'[name]
                 last == after.versions[Len(after.versions)]
             IN  IF FileBacked(name) /\ src # UNDEF
                   THEN /\ files'[before.path] = src
                        /\ after.versions = Append(before.versions, last)
                        /\ VaultLoad(vault', last.key) = src
                        /\ after.currentVersion = last.key
                        /\ after.instance = x
                   ELSE /\ after = [before EXCEPT !.instance = x,
                                                  !.backup = before.instance]
                        /\ UNCHANGED <<vault, files>>]_vars

C20_Witness ==
    /\ lastOp = Result("reloadInstance", "m", 0, "ok")
    /\ FileBacked("m")
    /\ files["p"] = "srcB"
    /\ Len(modules["m"].versions) = 2
    /\ VaultLoad(vault, modules["m"].versions[2].key) = "srcB"
    /\ modules["m"].currentVersion = modules["m"].versions[2].key
    /\ modules["m"].instance = "objA"
    /\ modules["m"].backup = "expA"

\* C21: reloadFromFile re-binds the source path.  After a successful
\* reloadFromFile(n, p') the entry's source path is p', the implementation
\* loaded from p' is current and the version log has grown by one entry; and
\* a successful reload(n) issued right after it installs what p' holds.
C21_ReloadFromFileRebinds ==
    [][\A name \in FileNames, path \in ReloadPaths :
          /\ (/\ lastOp' = Result("reloadFromFile", name, 0, "ok")
              /\ ReloadFromFile(name, path))
             => (/\ modules'[name].path = path
                 /\ modules'[name].instance = LoadModule(files[path])
                 /\ Len(HistoryReturn(name)') = Len(HistoryReturn(name)) + 1)
          /\ (/\ lastOp = Result("reloadFromFile", name, 0, "ok")
              /\ lastOp' = Result("reload", name, 0, "ok"))
             => modules'[name].instance = LoadModule(files[path])]_vars

\* C22: fresh load.  Every successful registerFromFile, reload and persisted
\* rollback installs the implementation that the backing file's content at
\* the end of the call evaluates to, which is also the text the call archived
\* or restored; never an instance the host cached earlier.
C22_FreshLoad ==
    [][\A name \in FileNames :
          (/\ lastOp'.name = name /\ lastOp'.result = "ok"
           /\ \/ lastOp'.op \in {"registerFromFile", "reload"}
              \/ lastOp'.op = "rollback" /\ FileBacked(name))
          => (/\ modules'[name].instance = LoadModule(files'[modules'[name].path])
              /\ VaultLoad(vault', modules'[name].currentVersion)
                   = files'[modules'[name].path])]_vars

\* C29: the current version key tracks the log tail.  In every reachable
\* state every file-backed entry has a non-empty version log whose last
\* entry's key is the entry's currentVersionKey.
C29_CurrentVersionIsLogTail ==
    \A name \in Names :
       FileBacked(name)
       => (/\ Len(modules[name].versions) >= 1
           /\ modules[name].currentVersion
                = modules[name].versions[Len(modules[name].versions)].key)

C29_Witness ==
    /\ lastOp = Result("rollback", "m", 1, "ok")
    /\ FileBacked("m")
    /\ Len(modules["m"].versions) = 1
    /\ modules["m"].currentVersion = <<"m", 0>>
    /\ vault[<<"m", 1>>] # NoRow

\* C30: version keys are unique per log position.  Within one entry's
\* version log all artifact keys are pairwise distinct.
C30_VersionKeysUnique ==
    \A name \in Names :
       \A i, j \in 1..Len(modules[name].versions) :
          i # j => modules[name].versions[i].key # modules[name].versions[j].key

\* C23: Store round trip.  On either backend, a load(k) made after a
\* store(k, s) that returned, with no store or remove of k in between,
\* returns exactly s.
C23_StoreRoundTrip ==
    [][vaultOp'.op = "load"
       => /\ stored.file[vaultOp'.key] # UNDEF
               => vaultOp'.file = stored.file[vaultOp'.key]
          /\ stored.sqlite[vaultOp'.key] # UNDEF
               => vaultOp'.sqlite = stored.sqlite[vaultOp'.key]]_vars

\* C24: overwrite on conflict.  Right after a store(k, s) that returned,
\* load(k) yields the payload just stored, and what load yields for every
\* other key is what it yielded before the call.
C24_OverwriteOnConflict ==
    [][vaultOp'.op = "store"
       => /\ vaultOp'.file = "ok"
               => FileLoad(vaultDir', vaultOp'.key) = stored'.file[vaultOp'.key]
          /\ VaultLoad(vaultDb', vaultOp'.key) = stored'.sqlite[vaultOp'.key]
          /\ \A other \in StoreKeys \ {vaultOp'.key} :
                /\ FileLoad(vaultDir', other) = FileLoad(vaultDir, other)
                /\ VaultLoad(vaultDb', other) = VaultLoad(vaultDb, other)]_vars

\* C25: not found is a value.  load(k) returns undefined exactly when k has
\* never been stored or has been removed since its last store; after
\* remove(k) a load of k finds nothing, and a remove of an absent key leaves
\* the Store unchanged; neither call raises.
C25_NotFoundIsAValue ==
    [][/\ vaultOp'.op = "load"
            => /\ (vaultOp'.file = UNDEF) <=> (stored.file[vaultOp'.key] = UNDEF)
               /\ (vaultOp'.sqlite = UNDEF) <=> (stored.sqlite[vaultOp'.key] = UNDEF)
       /\ vaultOp'.op = "remove"
            => /\ vaultOp'.file = "ok" /\ vaultOp'.sqlite = "ok"
               /\ FileLoad(vaultDir', vaultOp'.key) = UNDEF
               /\ VaultLoad(vaultDb', vaultOp'.key) = UNDEF
               /\ stored.file[vaultOp'.key] = UNDEF => vaultDir' = vaultDir
               /\ stored.sqlite[vaultOp'.key] = UNDEF => vaultDb' = vaultDb]_vars

\* C26: backend interchangeability.  Every call of a sequence of store, load
\* and remove calls returns the same result, or fails alike, on the file
\* backend and on the sqlite backend.
C26_BackendsInterchangeable ==
    [][vaultOp'.file = vaultOp'.sqlite]_vars

\* C27: file-backend naming is collision-free.  Distinct keys address
\* distinct files, and a store under one key changes what the file backend
\* loads for no other key.
C27_FileNamingInjective ==
    [][/\ \A k1, k2 \in StoreKeys : k1 # k2 => FilePath(k1) # FilePath(k2)
       /\ vaultOp'.op = "store"
            => \A other \in StoreKeys \ {vaultOp'.key} :
                  FileLoad(vaultDir', other) = FileLoad(vaultDir, other)]_vars

\* C28: package reload takes effect.  A reload(p) of a package obtained
\* before through get(p) returns an instance loaded by this call, not the
\* one get(p) returned, and later get(p) calls return that new instance.
C28_PackageReloadTakesEffect ==
    [][\A name \in PackageNames :
          (/\ pkgOp'.op = "reload" /\ pkgOp'.name = name
           /\ packages[name] # NoPackage)
          => (/\ pkgOp'.result # packages[name]
              /\ pkgOp'.result = <<pkgDisk[name], pkgLoads'>>
              /\ pkgLoads' = pkgLoads + 1
              /\ packages'[name] = pkgOp'.result)]_vars

\* What C31 compares of a state: the version log, the currentVersionKey and
\* the content of the backing file of `name`.
Persisted(st, name) ==
    <<st.modules[name].versions, st.modules[name].currentVersion,
      st.files[st.modules[name].path]>>

\* C31: persisted rollbacks compose.  On a file-backed entry with a version
\* log of length L, for a, b >= 1 with a + b <= L - 1, rollback(n, a)
\* followed by rollback(n, b) ends with the same version log,
\* currentVersionKey and backing file content as rollback(n, a + b) alone;
\* and rollback(n, 0) leaves the version log and currentVersionKey unchanged.
C31_RollbacksCompose ==
    [][\A name \in FileNames :
          (/\ FileBacked(name)
           /\ lastOp'.op = "rollback" /\ lastOp'.name = name)
          => LET before == RegistryState(modules, vault, files, cache)
                 after == RegistryState(modules', vault', files', cache')
                 a == lastOp'.arg
                 L == Len(modules[name].versions)
             IN  /\ a >= 1 =>
                       \A b \in 1..(L - 1 - a) :
                          Persisted(RollbackFrom(after, name, b), name)
                             = Persisted(RollbackFrom(before, name, a + b), name)
                 /\ a = 0 =>
                       /\ modules'[name].versions = modules[name].versions
                       /\ modules'[name].currentVersion = modules[name].currentVersion]_vars

\* C32: entry isolation.  A register (in memory or from a file), reload,
\* reloadInstance or rollback call addressed to name n leaves the current
\* value, backup, source path, version log and currentVersionKey of every
\* other registered name m unchanged, and does not change the payload the
\* Store returns for any key in m's version log.
C32_EntryIsolation ==
    [][\A n \in Names :
          (/\ lastOp'.name = n
           /\ lastOp'.op \in {"register", "registerFromFile", "reload",
                              "reloadInstance", "rollback"})
          => \A m \in Names \ {n} :
                modules[m].present
                => /\ modules'[m] = modules[m]
                   /\ \A i \in 1..Len(modules[m].versions) :
                         VaultLoad(vault', modules[m].versions[i].key)
                            = VaultLoad(vault, modules[m].versions[i].key)]_vars

\* reload("n") has archived a new version of n in the millisecond in which
\* m's current version was archived, both names being bound to one file.
C32_Witness ==
    /\ lastOp = Result("reload", "n", 0, "ok")
    /\ FileBacked("m") /\ FileBacked("n")
    /\ modules["m"].path = modules["n"].path
    /\ Len(modules["n"].versions) = 2
    /\ modules["m"].currentVersion[2] = modules["n"].currentVersion[2]
    /\ VaultLoad(vault, modules["m"].currentVersion)
          # VaultLoad(vault, modules["n"].currentVersion)

\* C33: patch then rollback restores the module.  applyPatch(m, p) on an
\* existing module file and patch file completes without error, leaves the
\* cache entry of m exporting p's exports and the rollback registry holding
\* m's pre-patch exports; a rollback(m) that follows succeeds and makes the
\* cache entry of m export the pre-patch exports again.
C33_PatchThenRollback ==
    [][\A m \in ModuleFiles :
          /\ (pkgOp'.op = "applyPatch" /\ pkgOp'.name = m)
             => /\ pkgOp'.result # TypeError
                /\ pkgCache'[m] # NoPackage
                /\ pkgCache'[m] = pkgCache'[pkgOp'.patch]
                /\ rollbackRegistry'[m] # NoPackage
                /\ (pkgCache[m] # NoPackage => rollbackRegistry'[m] = pkgCache[m])
          /\ (/\ pkgOp.op = "applyPatch" /\ pkgOp.name = m
              /\ pkgOp'.op = "rollback" /\ pkgOp'.name = m)
             => /\ pkgOp'.result = Done
                /\ pkgCache'[m] # NoPackage
                /\ pkgCache'[m] = rollbackRegistry[m]]_vars

\* The cached modules reachable from the modules in `frontier` through the
\* children of cached modules.
RECURSIVE ReachableFrom(_, _, _)
ReachableFrom(c, frontier, seen) ==
    LET cached == {q \in frontier : c[q] # NoPackage} \ seen
    IN  IF cached = {}
          THEN seen
        ELSE ReachableFrom(c,
                 UNION {{Requires(q)[i] : i \in 1..Len(Requires(q))} : q \in cached},
                 seen \cup cached)

\* C34: cache clearing terminates.  clearCache(path) returns for every
\* module graph in the cache, cyclic ones included, and then the cache
\* holds no entry for path or for any module reachable from it through
\* children; hence reload returns too.
C34_ClearCacheTerminates ==
    [][/\ pkgOp'.op = "clearCache"
          => /\ pkgOp'.result # RangeError
             /\ pkgCache'[pkgOp'.name] = NoPackage
             /\ \A q \in ReachableFrom(pkgCache, {pkgOp'.name}, {}) :
                   pkgCache'[q] = NoPackage
       /\ pkgOp'.op = "reload" => pkgOp'.result # RangeError]_vars
====
